---- MODULE Spec2Model ----
(***************************************************************************)
(* NILFS inode file (fs/nilfs2/ifile.c): slot allocation / release and the *)
(* comparison of two inode files (nilfs_ifile_compare).                    *)
(*                                                                         *)
(* An inode file is a block-mapped file made of groups: a group is one      *)
(* allocator metadata block followed by EntryBlocksPerGroup entry blocks   *)
(* of EntriesPerBlock disk inodes each.  A buffer head is named by the     *)
(* pair <<file, block offset>>.                                            *)
(***************************************************************************)
EXTENDS Integers, Sequences, FiniteSets, TLC

\* ------------------------------------------------------------- bounds ----
NumGroups == 2           \* groups of an inode file
MaxChanges == 2          \* largest capacity a caller passes to compare
NumRoots == 2            \* root objects, each with an inode file of its own
MaxInodes == 3           \* in-memory ifile inodes ever allocated

\* ------------------------------------------------------ program sizes ----
\* The sizes the program computes at run time, scaled down.
EntriesPerBlock == 2     \* NILFS_MDT(ifile)->mi_entries_per_block
MaxDiffs == 2            \* maxdiffs = PAGE_SIZE / sizeof(*diffs)
EntryBlocksPerGroup == 1 \* entry blocks that follow a group's metadata block

\* -------------------------------------------------- program constants ----
NILFS_BMAP_INVALID_PTR == 0
EIO == 5
ENOENT == 2
ENOMEM == 12
EINVAL == 22
ENOSPC == 28

SizeMod == 2 ^ 16        \* size_t arithmetic, width scaled down to 16 bits

GroupBlocks == 1 + EntryBlocksPerGroup
NumBlocks == NumGroups * GroupBlocks
Offsets == 0 .. (NumBlocks - 1)
MetaOffsets == {o \in Offsets : o % GroupBlocks = 0}
EntryOffsets == Offsets \ MetaOffsets
NumEntries == NumGroups * EntryBlocksPerGroup * EntriesPerBlock
Inos == 0 .. (NumEntries - 1)
Slots == 0 .. (EntriesPerBlock - 1)
Files == {1, 2}

\* A buffer head; NULL is the null pointer.
Handles == Files \X Offsets
NULL == <<0, 0>>

\* ---------------------------------------------------- on-disk inodes ----
\* struct nilfs_inode, the four fields ifile.c reads or writes.
RawInode(links, ctime, nsec, flags) ==
    [i_links_count |-> links, i_ctime |-> ctime, i_ctime_nsec |-> nsec,
     i_flags |-> flags]

ZeroInode == RawInode(0, 0, 0, 0)
InodeVals == { RawInode(0, 0, 0, 0), RawInode(0, 1, 0, 0),
               RawInode(1, 1, 0, 0), RawInode(1, 1, 1, 0) }

ZeroBlock == [s \in Slots |-> ZeroInode]

\* The older inode file: the entry blocks of a group are mapped iff the group
\* has parity p; a mapped block holds a dead inode (stale ctime) in its slots
\* of parity p and a live one in its other slots.
BaseBlock(p) == [s \in Slots |-> IF s % 2 = p THEN RawInode(0, 1, 0, 0)
                                              ELSE RawInode(1, 1, 0, 0)]
BaseFile(p) ==
    [bmap |-> [o \in Offsets |->
                 IF o \in MetaOffsets \/ (o \div GroupBlocks) % 2 = p
                 THEN 1 ELSE NILFS_BMAP_INVALID_PTR],
     blk  |-> [o \in Offsets |->
                 IF o \in EntryOffsets /\ (o \div GroupBlocks) % 2 = p
                 THEN BaseBlock(p) ELSE ZeroBlock]]

VARIABLES
    ifiles,     \* ifiles[f]: block map and block contents of inode file f
    phase,      \* "edit": files being written; "returned": compare has returned
    c_start,    \* compare: argument start
    c_max,      \* compare: argument maxchanges
    c_ret,      \* compare: return value
    changes,    \* compare: records written through the pointer changes
    refcnt,     \* b_count of every buffer head
    fetches,    \* compare: buffer heads asked of nilfs_palloc_get_entry_block
    bmapcalls,  \* compare: blkoff of every nilfs_bmap_compare call
    fault,      \* compare: the injected failure that fired (or NoFault)
    pagefree,   \* compare: the scratch page is not allocated
    palloc,     \* allocator state of inode file 1
    dirty,      \* buffer heads marked dirty
    mdt_dirty,  \* inode file 1 is marked dirty
    lres,       \* the last create / delete / get_inode_block call and its result
    owned,      \* owned[n]: the buffer head create returned with entry n, until
                \* a delete of n succeeds (NULL otherwise)
    icache,     \* the in-memory ifile inodes (see nilfs_iget_locked)
    rres        \* the last nilfs_ifile_read call and its result

vars == <<ifiles, phase, c_start, c_max, c_ret, changes, refcnt, fetches,
          bmapcalls, fault, pagefree, palloc, dirty, mdt_dirty, lres, owned,
          icache, rres>>

\* ------------------------------------------------ failure injection ----
NoFault == [kind |-> "none"]
PageFault == [kind |-> "page"]                       \* __get_free_pages fails
BmapFault(k, e) == [kind |-> "bmap", call |-> k, err |-> e]
FetchFault(h, e) == [kind |-> "fetch", bh |-> h, err |-> e]
PrepFault(e) == [kind |-> "prepare", err |-> e]     \* allocator prepare fails

Faults ==
    {NoFault, PageFault}
    \cup {BmapFault(k, EIO) : k \in 1 .. NumBlocks}
    \cup {FetchFault(h, e) : h \in Files \X EntryOffsets, e \in {EIO, ENOENT}}

\* ------------------------------------------------------ buffer heads ----
get_bh(rc, bh) == [rc EXCEPT ![bh] = @ + 1]

\* A brelse that drops no reference.
brelse_Noop(rc, bh) == rc

\* brelse(NULL) is ignored
brelse(rc, bh) == IF bh = NULL THEN rc ELSE [rc EXCEPT ![bh] = @ - 1]

\* ------------------------------------------------- entry allocator ----
\* Block offset of the block that holds entry nr.
nilfs_palloc_entry_blkoff(nr) ==
    LET b == nr \div EntriesPerBlock
    IN  (b \div EntryBlocksPerGroup) * GroupBlocks + 1
        + (b % EntryBlocksPerGroup)

\* Type of block `key` and the number of its first entry.
nilfs_palloc_block_type(key) ==
    IF key % GroupBlocks = 0
    THEN [t |-> "other", nr |-> 0]
    ELSE [t |-> "entry",
          nr |-> ((key \div GroupBlocks) * EntryBlocksPerGroup
                  + (key % GroupBlocks) - 1) * EntriesPerBlock]

\* The entry ino of the block behind bh.
nilfs_palloc_block_get_entry(file, ino, bh) ==
    file.blk[bh[2]][ino % EntriesPerBlock]

\* A block that is written gets a new place in the log: its pointer differs
\* from the one an older version of the file has for it.
NewPtr == 2

\* Fetch the block of entry nr of file f: the injected error on an I/O
\* failure; a reference to the block when it is mapped; when it is not,
\* -ENOENT without create and a new zero-filled block with create.
nilfs_palloc_get_entry_block(f, file, nr, create, flt) ==
    LET off == nilfs_palloc_entry_blkoff(nr)
    IN  IF flt.kind = "fetch" /\ flt.bh = <<f, off>>
        THEN [ret |-> -flt.err, bh |-> NULL, file |-> file]
        ELSE IF file.bmap[off] # NILFS_BMAP_INVALID_PTR
        THEN [ret |-> 0, bh |-> <<f, off>>, file |-> file]
        ELSE IF create = 0
        THEN [ret |-> -ENOENT, bh |-> NULL, file |-> file]
        ELSE [ret |-> 0, bh |-> <<f, off>>,
              file |-> [file EXCEPT !.bmap[off] = NewPtr,
                                    !.blk[off] = ZeroBlock]]

\* The allocator state pa = [used, prep]: the allocated entries and the
\* requests prepared and neither committed nor aborted yet.
Req(op, nr) == [op |-> op, nr |-> nr]

Min(S) == CHOOSE x \in S : \A y \in S : x <= y

FreeEntries(pa) == Inos \ (pa.used \cup {r.nr : r \in pa.prep})

\* Reserve a free entry, searching from entry 0.
nilfs_palloc_prepare_alloc_entry(pa, flt) ==
    IF flt.kind = "prepare"
    THEN [ret |-> -flt.err, nr |-> 0, pa |-> pa]
    ELSE IF FreeEntries(pa) = {}
    THEN [ret |-> -ENOSPC, nr |-> 0, pa |-> pa]
    ELSE [ret |-> 0, nr |-> Min(FreeEntries(pa)),
          pa |-> [pa EXCEPT !.prep = @ \cup
                                {Req("alloc", Min(FreeEntries(pa)))}]]

nilfs_palloc_commit_alloc_entry(pa, nr) ==
    [used |-> pa.used \cup {nr}, prep |-> pa.prep \ {Req("alloc", nr)}]

nilfs_palloc_abort_alloc_entry(pa, nr) ==
    [pa EXCEPT !.prep = @ \ {Req("alloc", nr)}]

\* Prepare the release of entry nr, which has to be allocated.
nilfs_palloc_prepare_free_entry(pa, nr, flt) ==
    IF flt.kind = "prepare"
    THEN [ret |-> -flt.err, pa |-> pa]
    ELSE IF nr \notin pa.used
    THEN [ret |-> -ENOENT, pa |-> pa]
    ELSE [ret |-> 0, pa |-> [pa EXCEPT !.prep = @ \cup {Req("free", nr)}]]

nilfs_palloc_commit_free_entry(pa, nr) ==
    [used |-> pa.used \ {nr}, prep |-> pa.prep \ {Req("free", nr)}]

nilfs_palloc_abort_free_entry(pa, nr) ==
    [pa EXCEPT !.prep = @ \ {Req("free", nr)}]

\* An entry number the table can address.
NILFS_VALID_INODE(ino) == ino \in Inos

\* ------------------------------------------------- block-map differ ----
\* The block offsets >= blkoff the two maps map differently, ascending, at
\* most maxdiffs of them, each with both pointers.
RECURSIVE DiffsFrom(_, _, _, _)
DiffsFrom(bmap1, bmap2, off, room) ==
    IF off >= NumBlocks \/ room = 0
    THEN <<>>
    ELSE IF bmap1[off] # bmap2[off]
    THEN <<[key |-> off, ptr1 |-> bmap1[off], ptr2 |-> bmap2[off]]>>
         \o DiffsFrom(bmap1, bmap2, off + 1, room - 1)
    ELSE DiffsFrom(bmap1, bmap2, off + 1, room)

\* A differ that reports every block offset >= blkoff either map maps,
\* whether or not the two maps differ there.
RECURSIVE MappedFrom(_, _, _, _)
MappedFrom(bmap1, bmap2, off, room) ==
    IF off >= NumBlocks \/ room = 0
    THEN <<>>
    ELSE IF bmap1[off] # NILFS_BMAP_INVALID_PTR
            \/ bmap2[off] # NILFS_BMAP_INVALID_PTR
    THEN <<[key |-> off, ptr1 |-> bmap1[off], ptr2 |-> bmap2[off]]>>
         \o MappedFrom(bmap1, bmap2, off + 1, room - 1)
    ELSE MappedFrom(bmap1, bmap2, off + 1, room)

nilfs_bmap_compare_AllMapped(bmap1, bmap2, blkoff, maxdiffs) ==
    MappedFrom(bmap1, bmap2, blkoff, maxdiffs)

nilfs_bmap_compare(bmap1, bmap2, blkoff, maxdiffs) ==
    DiffsFrom(bmap1, bmap2, blkoff, maxdiffs)

\* ------------------------------------------- nilfs_ifile_compare_block ----
\* One struct nilfs_ifile_change.
Change(ino, bh1, bh2) == [ino |-> ino, bh1 |-> bh1, bh2 |-> bh2]

\* The three loops work on st = [n, recs, rc]: the count of records written
\* by this call, the records (changes[0 .. n-1]) and the reference counts.

\* Block mapped in the target file only (ifile.c 208-219).
RECURSIVE ScanTarget(_, _, _, _, _, _)
ScanTarget(file2, ibh2, ino, end, maxchanges, st) ==
    IF ino > end
    THEN st
    ELSE IF nilfs_palloc_block_get_entry(file2, ino, ibh2).i_links_count # 0
    THEN LET st1 == [n    |-> st.n + 1,
                     recs |-> Append(st.recs, Change(ino, NULL, ibh2)),
                     rc   |-> get_bh(st.rc, ibh2)]
         IN  IF st1.n = maxchanges
             THEN st1
             ELSE ScanTarget(file2, ibh2, ino + 1, end, maxchanges, st1)
    ELSE ScanTarget(file2, ibh2, ino + 1, end, maxchanges, st)

\* Block mapped in the source file only (ifile.c 226-237).
RECURSIVE ScanSource(_, _, _, _, _, _)
ScanSource(file1, ibh1, ino, end, maxchanges, st) ==
    IF ino > end
    THEN st
    ELSE IF nilfs_palloc_block_get_entry(file1, ino, ibh1).i_links_count # 0
    THEN LET st1 == [n    |-> st.n + 1,
                     recs |-> Append(st.recs, Change(ino, ibh1, NULL)),
                     rc   |-> get_bh(st.rc, ibh1)]
         IN  IF st1.n = maxchanges
             THEN st1
             ELSE ScanSource(file1, ibh1, ino + 1, end, maxchanges, st1)
    ELSE ScanSource(file1, ibh1, ino + 1, end, maxchanges, st)

\* BothRecord with the target handle stored whatever the target link count.
BothRecord_TargetAlways(raw_inode1, raw_inode2, ibh1, ibh2, ino, st) ==
    LET live1 == raw_inode1.i_links_count # 0
        rc1 == IF live1 THEN get_bh(st.rc, ibh1) ELSE st.rc
    IN  [n    |-> st.n + 1,
         recs |-> Append(st.recs, Change(ino, IF live1 THEN ibh1 ELSE NULL,
                                              ibh2)),
         rc   |-> get_bh(rc1, ibh2)]

\* BothRecord with the source handle stored whatever the source link count.
BothRecord_SourceAlways(raw_inode1, raw_inode2, ibh1, ibh2, ino, st) ==
    LET live2 == raw_inode2.i_links_count # 0
        rc1 == get_bh(st.rc, ibh1)
    IN  [n    |-> st.n + 1,
         recs |-> Append(st.recs, Change(ino, ibh1,
                                              IF live2 THEN ibh2 ELSE NULL)),
         rc   |-> IF live2 THEN get_bh(rc1, ibh2) ELSE rc1]

\* One record of the loop over a block mapped in both files (ifile.c 250-262).
BothRecord(raw_inode1, raw_inode2, ibh1, ibh2, ino, st) ==
    LET live1 == raw_inode1.i_links_count # 0
        live2 == raw_inode2.i_links_count # 0
        rc1 == IF live1 THEN get_bh(st.rc, ibh1) ELSE st.rc
        rc2 == IF live2 THEN get_bh(rc1, ibh2) ELSE rc1
    IN  [n    |-> st.n + 1,
         recs |-> Append(st.recs, Change(ino, IF live1 THEN ibh1 ELSE NULL,
                                              IF live2 THEN ibh2 ELSE NULL)),
         rc   |-> rc2]

\* InodeChanged that ignores the sub-second timestamp.
InodeChanged_CtimeOnly(raw_inode1, raw_inode2) ==
    raw_inode1.i_ctime # raw_inode2.i_ctime

\* The test that decides whether an entry of a block mapped in both files
\* is reported (ifile.c 247-249).
InodeChanged(raw_inode1, raw_inode2) ==
    \/ raw_inode1.i_ctime_nsec # raw_inode2.i_ctime_nsec
    \/ raw_inode1.i_ctime # raw_inode2.i_ctime

\* Block mapped in both files (ifile.c 246-269).
RECURSIVE ScanBoth(_, _, _, _, _, _, _, _)
ScanBoth(file1, file2, ibh1, ibh2, ino, end, maxchanges, st) ==
    IF ino > end
    THEN st
    ELSE LET raw_inode1 == nilfs_palloc_block_get_entry(file1, ino, ibh1)
             raw_inode2 == nilfs_palloc_block_get_entry(file2, ino, ibh2)
         IN  IF InodeChanged(raw_inode1, raw_inode2)
             THEN LET st1 == BothRecord(raw_inode1, raw_inode2, ibh1, ibh2,
                                        ino, st)
                  IN  IF st1.n = maxchanges
                      THEN st1
                      ELSE ScanBoth(file1, file2, ibh1, ibh2, ino + 1, end,
                                    maxchanges, st1)
             ELSE ScanBoth(file1, file2, ibh1, ibh2, ino + 1, end,
                           maxchanges, st)

Max(a, b) == IF a > b THEN a ELSE b

\* The first entry of the block at nr that is examined (ifile.c 178).
FirstIno_NoClip(nr, start) == nr

FirstIno(nr, start) == Max(nr, start)

\* nilfs_ifile_compare_block(ifile1, ifile2, start, diff, changes, maxchanges)
\* on files f1, f2 with contents file1, file2, reference counts rc and the
\* injected failure flt.  Result: n (records written, or a negative error),
\* recs (the records), rc, asked (the buffer heads it tried to fetch).
nilfs_ifile_compare_block(f1, f2, file1, file2, start, diff, maxchanges, rc, flt) ==
    LET bt  == nilfs_palloc_block_type(diff.key)
        nr  == bt.nr
        ino == FirstIno(nr, start)
        end == nr + EntriesPerBlock - 1
        nothing == [n |-> 0, recs |-> <<>>, rc |-> rc, asked |-> <<>>]
    IN
    IF bt.t # "entry" THEN nothing
    ELSE IF ino > end THEN nothing
    ELSE
    LET want1 == diff.ptr1 # NILFS_BMAP_INVALID_PTR
        want2 == diff.ptr2 # NILFS_BMAP_INVALID_PTR
        g1    == IF want1 THEN nilfs_palloc_get_entry_block(f1, file1, nr, 0,
                                                            flt)
                          ELSE [ret |-> 0, bh |-> NULL]
        ibh1  == g1.bh
        rc1   == IF ibh1 # NULL THEN get_bh(rc, ibh1) ELSE rc
        ask1  == IF want1 THEN <<<<f1, diff.key>>>> ELSE <<>>
    IN
    IF g1.ret < 0
    THEN [n |-> g1.ret, recs |-> <<>>, rc |-> rc1, asked |-> ask1]
    ELSE
    LET g2    == IF want2 THEN nilfs_palloc_get_entry_block(f2, file2, nr, 0,
                                                            flt)
                          ELSE [ret |-> 0, bh |-> NULL]
        ibh2  == g2.bh
        rc2   == IF ibh2 # NULL THEN get_bh(rc1, ibh2) ELSE rc1
        ask2  == IF want2 THEN Append(ask1, <<f2, diff.key>>) ELSE ask1
    IN
    IF g2.ret < 0
    THEN [n |-> g2.ret, recs |-> <<>>, rc |-> brelse(rc2, ibh1),
          asked |-> ask2]
    ELSE
    LET st0 == [n |-> 0, recs |-> <<>>, rc |-> rc2]
        st  == IF ibh1 = NULL
               THEN IF ibh2 = NULL
                    THEN st0
                    ELSE ScanTarget(file2, ibh2, ino, end, maxchanges, st0)
               ELSE IF ibh2 = NULL
                    THEN ScanSource(file1, ibh1, ino, end, maxchanges, st0)
                    ELSE ScanBoth(file1, file2, ibh1, ibh2, ino, end,
                                  maxchanges, st0)
    IN  [n |-> st.n, recs |-> st.recs,
         rc |-> brelse(brelse(st.rc, ibh1), ibh2), asked |-> ask2]

\* ------------------------------------------------- nilfs_ifile_compare ----
\* size_t arithmetic: maxchanges - nc is unsigned.
SizeT(x) == x % SizeMod

\* failed: (ifile.c 334-339): brelse the buffer heads of changes[i], i < nc.
RECURSIVE ReleaseChanges(_, _, _, _)
ReleaseChanges(recs, i, nc, rc) ==
    IF i < nc
    THEN ReleaseChanges(recs, i + 1, nc,
                        brelse(brelse(rc, recs[i + 1].bh1), recs[i + 1].bh2))
    ELSE rc

\* The call's arguments that stay fixed, a = [ifile1, ifile2, file1, file2,
\* start, maxchanges, flt], and its running state cs = [nc, recs, rc, asked,
\* bcalls].

\* AfterBlock that skips a block whose comparison failed and goes on.
AfterBlock_SkipFailed(cs, r, maxchanges) ==
    IF r.n < 0
    THEN [exit |-> "next",
          cs |-> [cs EXCEPT !.rc = r.rc, !.asked = @ \o r.asked]]
    ELSE [exit |-> IF cs.nc + r.n = maxchanges THEN "out" ELSE "next",
          cs |-> [cs EXCEPT !.nc = @ + r.n, !.recs = @ \o r.recs,
                            !.rc = r.rc, !.asked = @ \o r.asked]]

\* AfterBlock without the test nc == maxchanges.
AfterBlock_NoCapacityStop(cs, r, maxchanges) ==
    IF r.n < 0
    THEN [exit |-> "failed",
          cs |-> [cs EXCEPT !.nc = r.n,
                            !.rc = ReleaseChanges(cs.recs, 0, r.n, r.rc),
                            !.asked = @ \o r.asked]]
    ELSE [exit |-> "next",
          cs |-> [cs EXCEPT !.nc = @ + r.n, !.recs = @ \o r.recs,
                            !.rc = r.rc, !.asked = @ \o r.asked]]

\* ifile.c 320-326 after compare_block has returned r: "failed" (and the
\* release loop of the label failed), "out" (capacity reached) or "next".
AfterBlock(cs, r, maxchanges) ==
    IF r.n < 0
    THEN [exit |-> "failed",
          cs |-> [cs EXCEPT !.nc = r.n,
                            !.rc = ReleaseChanges(cs.recs, 0, r.n, r.rc),
                            !.asked = @ \o r.asked]]
    ELSE [exit |-> IF cs.nc + r.n = maxchanges THEN "out" ELSE "next",
          cs |-> [cs EXCEPT !.nc = @ + r.n, !.recs = @ \o r.recs,
                            !.rc = r.rc, !.asked = @ \o r.asked]]

\* The loop over one batch of diffs (ifile.c 316-327), from diffs[i] on
\* (i counts from 1), l being the outcome of the block before.
RECURSIVE BlockLoop(_, _, _, _)
BlockLoop(a, diffs, i, l) ==
    IF l.exit # "next" \/ i > Len(diffs)
    THEN l
    ELSE BlockLoop(a, diffs, i + 1,
            AfterBlock(l.cs,
                       nilfs_ifile_compare_block(
                           a.ifile1, a.ifile2, a.file1, a.file2, a.start,
                           diffs[i], SizeT(a.maxchanges - l.cs.nc), l.cs.rc,
                           a.flt),
                       a.maxchanges))

\* The do-while loop over the batches (ifile.c 306-329): the call of
\* nilfs_bmap_compare at block offset blkoff and what follows it.
RECURSIVE BatchLoop(_, _, _)

\* AfterBatch that calls the differ again after every batch that is not
\* empty.
AfterBatch_AlwaysAgain(a, diffs, l) ==
    IF l.exit = "next" /\ Len(diffs) > 0
    THEN BatchLoop(a, diffs[Len(diffs)].key + 1, l.cs)
    ELSE l.cs

\* ifile.c 328-329 after the loop over the batch diffs has ended with l.
AfterBatch(a, diffs, l) ==
    IF l.exit = "next" /\ Len(diffs) = MaxDiffs
    THEN BatchLoop(a, diffs[Len(diffs)].key + 1, l.cs)
    ELSE l.cs

BatchLoop(a, blkoff, cs) ==
    IF a.flt.kind = "bmap" /\ a.flt.call = Len(cs.bcalls) + 1
    THEN [cs EXCEPT !.bcalls = Append(@, blkoff), !.nc = -a.flt.err]
    ELSE AfterBatch(a,
                    nilfs_bmap_compare(a.file1.bmap, a.file2.bmap, blkoff,
                                       MaxDiffs),
                    BlockLoop(a,
                              nilfs_bmap_compare(a.file1.bmap, a.file2.bmap,
                                                 blkoff, MaxDiffs),
                              1,
                              [exit |-> "next",
                               cs |-> [cs EXCEPT !.bcalls = Append(@, blkoff)]]))

\* out: (ifile.c 330-332): the scratch page is freed.
free_pages(cs) == [cs EXCEPT !.page = "freed"]

\* nilfs_ifile_compare(ifile1, ifile2, start, changes, maxchanges) with the
\* reference counts rc before the call and the injected failure flt.  The
\* field page of the result tells what became of the scratch page: "none"
\* (not allocated), "held" or "freed".
nilfs_ifile_compare(f1, f2, file1, file2, start, maxchanges, rc, flt) ==
    IF flt.kind = "page"
    THEN [nc |-> -ENOMEM, recs |-> <<>>, rc |-> rc, asked |-> <<>>,
          bcalls |-> <<>>, page |-> "none"]
    ELSE free_pages(
             BatchLoop([ifile1 |-> f1, ifile2 |-> f2, file1 |-> file1,
                        file2 |-> file2, start |-> start,
                        maxchanges |-> maxchanges, flt |-> flt],
                       nilfs_palloc_entry_blkoff(start),
                       [nc |-> 0, recs |-> <<>>, rc |-> rc, asked |-> <<>>,
                        bcalls |-> <<>>, page |-> "held"]))

\* Whether the injected failure flt was met by a call with result r.
Fired(flt, r) ==
    \/ flt.kind = "page"
    \/ flt.kind = "bmap" /\ flt.call <= Len(r.bcalls)
    \/ flt.kind = "fetch" /\ \E j \in 1 .. Len(r.asked) : r.asked[j] = flt.bh

\* ---------------------------------------------------- nilfs_ifile_read ----
\* The inode cache ic = [res, next, bad, locked, bound]: the ifile inode
\* resident for each root (NoInode: none), the next inode to allocate, the
\* inodes marked bad, the inodes that are new and locked, and the inodes bound
\* to their metadata (all three steps done).
Roots == 1 .. NumRoots
NoInode == 0

\* Injected failures of one nilfs_ifile_read call.
NoReadFault == [step |-> "none", err |-> 0]
ReadFaults ==
    {NoReadFault, [step |-> "iget", err |-> ENOMEM]}
    \cup {[step |-> st, err |-> e] :
             st \in {"nilfs_mdt_init", "nilfs_palloc_init_blockgroup",
                     "nilfs_read_inode_common"},
             e \in {EIO, ENOMEM}}

\* The resident inode of the root, or a new locked one (I_NEW), or none when
\* memory is short.
nilfs_iget_locked(ic, root, flt) ==
    IF flt.step = "iget"
    THEN [ifile |-> NoInode, I_NEW |-> FALSE, ic |-> ic]
    ELSE IF ic.res[root] # NoInode
    THEN [ifile |-> ic.res[root], I_NEW |-> FALSE, ic |-> ic]
    ELSE [ifile |-> ic.next, I_NEW |-> TRUE,
          ic |-> [ic EXCEPT !.res[root] = ic.next, !.next = @ + 1,
                            !.locked = @ \cup {ic.next}]]

\* The new inode is marked bad, unlocked and dropped from the cache.
iget_failed(ic, root, ifile) ==
    [ic EXCEPT !.res[root] = NoInode, !.bad = @ \cup {ifile},
               !.locked = @ \ {ifile}]

unlock_new_inode(ic, ifile) == [ic EXCEPT !.locked = @ \ {ifile}]

\* The three binding steps, in order, and the step that attaches the cache.
BindingSteps ==
    <<"nilfs_mdt_init", "nilfs_palloc_init_blockgroup",
      "nilfs_palloc_setup_cache", "nilfs_read_inode_common">>

\* The position of step st in BindingSteps.
StepIndex(st) == CHOOSE j \in 1 .. Len(BindingSteps) : BindingSteps[j] = st

\* nilfs_ifile_read that hands out the new inode although a step has failed.
nilfs_ifile_read_StoreOnFailure(ic, root, flt) ==
    LET g == nilfs_iget_locked(ic, root, flt)
    IN  IF g.ifile = NoInode
        THEN [ret |-> -ENOMEM, inodep |-> NoInode, ic |-> g.ic,
              calls |-> <<"nilfs_iget_locked">>]
        ELSE IF ~g.I_NEW
        THEN [ret |-> 0, inodep |-> g.ifile, ic |-> g.ic,
              calls |-> <<"nilfs_iget_locked">>]
        ELSE IF flt.step # "none"
        THEN [ret |-> -flt.err, inodep |-> g.ifile, ic |-> g.ic,
              calls |-> <<"nilfs_iget_locked">>
                        \o SubSeq(BindingSteps, 1, StepIndex(flt.step))]
        ELSE [ret |-> 0, inodep |-> g.ifile,
              ic |-> unlock_new_inode(
                         [g.ic EXCEPT !.bound = @ \cup {g.ifile}], g.ifile),
              calls |-> <<"nilfs_iget_locked">> \o BindingSteps
                        \o <<"unlock_new_inode">>]

\* nilfs_ifile_read(sb, root, inode_size, raw_inode, inodep).
nilfs_ifile_read(ic, root, flt) ==
    LET g == nilfs_iget_locked(ic, root, flt)
    IN  IF g.ifile = NoInode
        THEN [ret |-> -ENOMEM, inodep |-> NoInode, ic |-> g.ic,
              calls |-> <<"nilfs_iget_locked">>]
        ELSE IF ~g.I_NEW
        THEN [ret |-> 0, inodep |-> g.ifile, ic |-> g.ic,
              calls |-> <<"nilfs_iget_locked">>]
        ELSE IF flt.step # "none"
        THEN [ret |-> -flt.err, inodep |-> NoInode,
              ic |-> iget_failed(g.ic, root, g.ifile),
              calls |-> <<"nilfs_iget_locked">>
                        \o SubSeq(BindingSteps, 1, StepIndex(flt.step))
                        \o <<"iget_failed">>]
        ELSE [ret |-> 0, inodep |-> g.ifile,
              ic |-> unlock_new_inode(
                         [g.ic EXCEPT !.bound = @ \cup {g.ifile}], g.ifile),
              calls |-> <<"nilfs_iget_locked">> \o BindingSteps
                        \o <<"unlock_new_inode">>]

EmptyCache ==
    [res |-> [r \in Roots |-> NoInode], next |-> 1, bad |-> {},
     locked |-> {}, bound |-> {}]

NoRead == [op |-> "none", root |-> 0, ret |-> 0, inodep |-> NoInode,
           calls |-> <<>>, flt |-> NoReadFault, before |-> EmptyCache]

ReadVars == <<icache, rres>>

\* ------------------------------------------------------------ actions ----
ZeroRefs == [h \in Handles |-> 0]

NoCall == [op |-> "none", ino |-> 0, ret |-> 0, out_ino |-> 0,
           out_bh |-> NULL, calls |-> <<>>, fault |-> NoFault]

LifeVars == <<palloc, dirty, mdt_dirty, lres, owned, icache, rres>>

LifeInit ==
    /\ palloc = [used |-> {}, prep |-> {}]
    /\ dirty = {}
    /\ mdt_dirty = FALSE
    /\ lres = NoCall
    /\ owned = [n \in Inos |-> NULL]
    /\ icache = EmptyCache
    /\ rres = NoRead

Init ==
    /\ LifeInit
    /\ \E p \in {0, 1} : ifiles = [f \in Files |-> BaseFile(p)]
    /\ phase = "edit"
    /\ c_start = 0
    /\ c_max = 0
    /\ c_ret = 0
    /\ changes = <<>>
    /\ refcnt = ZeroRefs
    /\ fetches = <<>>
    /\ bmapcalls = <<>>
    /\ fault = NoFault
    /\ pagefree = TRUE

CompareVars == <<c_start, c_max, c_ret, changes, refcnt, fetches, bmapcalls,
                 fault, pagefree>>

\* A caller writes the disk inode ino of the newer file through the mapping
\* of its block.
WriteInode(ino, val) ==
    LET off == nilfs_palloc_entry_blkoff(ino)
    IN  /\ phase = "edit"
        /\ ifiles[2].bmap[off] # NILFS_BMAP_INVALID_PTR
        /\ ifiles' = [ifiles EXCEPT
                        ![2].bmap[off] = NewPtr,
                        ![2].blk[off][ino % EntriesPerBlock] = val]
        /\ UNCHANGED <<CompareVars, LifeVars, phase>>

\* An entry block of the newer file is created (zero-filled).
AddBlock(off) ==
    /\ phase = "edit"
    /\ ifiles[2].bmap[off] = NILFS_BMAP_INVALID_PTR
    /\ ifiles' = [ifiles EXCEPT ![2].bmap[off] = NewPtr,
                                ![2].blk[off] = ZeroBlock]
    /\ UNCHANGED <<CompareVars, LifeVars, phase>>

\* An entry block of the newer file is dropped from its block map.
DropBlock(off) ==
    /\ phase = "edit"
    /\ ifiles[2].bmap[off] # NILFS_BMAP_INVALID_PTR
    /\ ifiles' = [ifiles EXCEPT ![2].bmap[off] = NILFS_BMAP_INVALID_PTR,
                                ![2].blk[off] = ZeroBlock]
    /\ UNCHANGED <<CompareVars, LifeVars, phase>>

\* The allocator metadata block of a group of the newer file is written back.
RewriteMeta(off) ==
    /\ phase = "edit"
    /\ ifiles[2].bmap[off] # NewPtr
    /\ ifiles' = [ifiles EXCEPT ![2].bmap[off] = NewPtr]
    /\ UNCHANGED <<CompareVars, LifeVars, phase>>

\* A caller compares the older file with the newer one.
Compare(start, maxchanges, flt) ==
    /\ phase = "edit"
    /\ LET r == nilfs_ifile_compare(1, 2, ifiles[1], ifiles[2], start,
                                    maxchanges, refcnt, flt)
       IN  /\ c_ret' = r.nc
           /\ changes' = r.recs
           /\ refcnt' = r.rc
           /\ fetches' = r.asked
           /\ bmapcalls' = r.bcalls
           /\ fault' = IF Fired(flt, r) THEN flt ELSE NoFault
           /\ pagefree' = (r.page # "held")
    /\ c_start' = start
    /\ c_max' = maxchanges
    /\ phase' = "returned"
    /\ UNCHANGED <<ifiles, LifeVars>>

\* A caller compares file f with itself.
CompareSelf(f, start, maxchanges, flt) ==
    /\ phase = "edit"
    /\ LET r == nilfs_ifile_compare(f, f, ifiles[f], ifiles[f], start,
                                    maxchanges, refcnt, flt)
       IN  /\ c_ret' = r.nc
           /\ changes' = r.recs
           /\ refcnt' = r.rc
           /\ fetches' = r.asked
           /\ bmapcalls' = r.bcalls
           /\ fault' = IF Fired(flt, r) THEN flt ELSE NoFault
           /\ pagefree' = (r.page # "held")
    /\ c_start' = start
    /\ c_max' = maxchanges
    /\ phase' = "self"
    /\ UNCHANGED <<ifiles, LifeVars>>

Next ==
    \/ \E ino \in Inos, val \in InodeVals : WriteInode(ino, val)
    \/ \E off \in EntryOffsets : AddBlock(off)
    \/ \E off \in EntryOffsets : DropBlock(off)
    \/ \E off \in MetaOffsets : RewriteMeta(off)
    \/ \E start \in 0 .. NumEntries, maxchanges \in 0 .. MaxChanges,
          flt \in Faults : Compare(start, maxchanges, flt)
    \/ \E f \in Files, start \in 0 .. NumEntries,
          maxchanges \in 0 .. MaxChanges :
              CompareSelf(f, start, maxchanges, NoFault)

Spec == Init /\ [][Next]_vars

\* ================================================== claims on compare ====
Returned == phase = "returned"

\* compare has returned and no injected failure was met
Clean == Returned /\ fault = NoFault

Mapped(f, off) == ifiles[f].bmap[off] # NILFS_BMAP_INVALID_PTR
BlockOf(k) == nilfs_palloc_entry_blkoff(k)
EntryOf(f, k) == ifiles[f].blk[BlockOf(k)][k % EntriesPerBlock]
InosOf(off) == {i \in Inos : BlockOf(i) = off}

\* Every entry block other than k's is the same in both files.
OtherBlocksIdentical(k) ==
    \A off \in EntryOffsets \ {BlockOf(k)} :
        /\ Mapped(1, off) = Mapped(2, off)
        /\ ifiles[1].blk[off] = ifiles[2].blk[off]

\* Every entry of k's block other than k is the same in both files.
OtherSlotsIdentical(k) ==
    \A i \in InosOf(BlockOf(k)) \ {k} : EntryOf(1, i) = EntryOf(2, i)

Ascending(recs) ==
    \A i, j \in 1 .. Len(recs) : i < j => recs[i].ino < recs[j].ino

\* ---- C1 -----------------------------------------------------------------
\* C1 (as claimed): when compare fails after it has produced records, it
\* returns the error of the failure and has released every reference taken
\* for those records: every reference count is what it was before the call
\* (zero).
C1_FailureReleasesRecords ==
    (Returned /\ c_ret < 0 /\ Len(changes) > 0)
        => (fault # NoFault /\ c_ret = -fault.err /\ refcnt = ZeroRefs)

\* ---- C2 -----------------------------------------------------------------
\* C2 (as claimed): with maxchanges = 0 compare returns 0, writes no record
\* and fetches no entry block.
C2_ZeroCapacityEmpty ==
    (Clean /\ c_max = 0)
        => (c_ret = 0 /\ changes = <<>> /\ fetches = <<>>)

\* ---- C3 -----------------------------------------------------------------
\* C3 (as claimed): no record written by compare has bh1 = NULL and
\* bh2 = NULL.
C3_NeverBothAbsent ==
    Returned => \A i \in 1 .. Len(changes) :
                    ~(changes[i].bh1 = NULL /\ changes[i].bh2 = NULL)

\* ---- C4 -----------------------------------------------------------------
\* Entry k is live in the older file and its block is not mapped in the
\* newer one; nothing else differs.
DeletedWithBlock(k) ==
    /\ Mapped(1, BlockOf(k)) /\ ~Mapped(2, BlockOf(k))
    /\ EntryOf(1, k).i_links_count # 0
    /\ \A i \in InosOf(BlockOf(k)) \ {k} : EntryOf(1, i).i_links_count = 0
    /\ OtherBlocksIdentical(k)

\* Entry k is live in the older file and dead in the newer one, its block
\* mapped in both; no other entry differs.
DeletedInPlace(k) ==
    /\ Mapped(1, BlockOf(k)) /\ Mapped(2, BlockOf(k))
    /\ EntryOf(1, k).i_links_count # 0
    /\ EntryOf(2, k).i_links_count = 0
    /\ OtherSlotsIdentical(k)
    /\ OtherBlocksIdentical(k)

\* ... and k itself differs in its link count only.
DeletedInPlaceOnly(k) ==
    /\ DeletedInPlace(k)
    /\ EntryOf(2, k) = [EntryOf(1, k) EXCEPT !.i_links_count = 0]

OneDeletion(k) ==
    /\ c_ret = 1
    /\ changes = <<Change(k, <<1, BlockOf(k)>>, NULL)>>

\* C4 (as claimed): one entry k >= start deleted, all else identical: one
\* record {k, present, absent}, whether k's block is mapped in the newer
\* file or not.
C4_DeletionReported ==
    \A k \in Inos :
        (Clean /\ c_max >= 1 /\ c_start <= k
         /\ (DeletedWithBlock(k) \/ DeletedInPlaceOnly(k)))
            => OneDeletion(k)

\* C4 (amended): the record {k, present, absent} is returned when k's block
\* is not mapped in the newer file, and when it is mapped in both provided
\* k's i_ctime or i_ctime_nsec differs too; with both blocks mapped and the
\* time stamps of k equal nothing is returned.
C4_DeletionReportedIfCtimeDiffers ==
    \A k \in Inos :
        (Clean /\ c_max >= 1 /\ c_start <= k)
            => /\ DeletedWithBlock(k) => OneDeletion(k)
               /\ (DeletedInPlace(k)
                   /\ InodeChanged(EntryOf(1, k), EntryOf(2, k)))
                      => OneDeletion(k)
               /\ (DeletedInPlace(k)
                   /\ ~InodeChanged(EntryOf(1, k), EntryOf(2, k)))
                      => (c_ret = 0 /\ changes = <<>>)

\* A deletion in a block mapped in both files, reported.
C4_Witness ==
    \E k \in Inos :
        /\ Clean /\ c_max >= 1 /\ c_start <= k
        /\ DeletedInPlace(k)
        /\ InodeChanged(EntryOf(1, k), EntryOf(2, k))
        /\ OneDeletion(k)

\* ---- C5 -----------------------------------------------------------------
\* Entry k is live in the newer file, whose block is not mapped in the older
\* one; nothing else differs.
CreatedWithBlock(k) ==
    /\ ~Mapped(1, BlockOf(k)) /\ Mapped(2, BlockOf(k))
    /\ EntryOf(2, k).i_links_count # 0
    /\ \A i \in InosOf(BlockOf(k)) \ {k} : EntryOf(2, i).i_links_count = 0
    /\ OtherBlocksIdentical(k)

\* Entry k is dead in the older file and live in the newer one, its block
\* mapped in both; no other entry differs.
CreatedInPlace(k) ==
    /\ Mapped(1, BlockOf(k)) /\ Mapped(2, BlockOf(k))
    /\ EntryOf(1, k).i_links_count = 0
    /\ EntryOf(2, k).i_links_count # 0
    /\ OtherSlotsIdentical(k)
    /\ OtherBlocksIdentical(k)

OneCreation(k) ==
    /\ c_ret = 1
    /\ changes = <<Change(k, NULL, <<2, BlockOf(k)>>)>>

\* C5 (as claimed): one entry k >= start created, all else identical: one
\* record {k, absent, present}, whether k's block is mapped in the older
\* file or not.
C5_CreationReported ==
    \A k \in Inos :
        (Clean /\ c_max >= 1 /\ c_start <= k
         /\ (CreatedWithBlock(k) \/ CreatedInPlace(k)))
            => OneCreation(k)

\* C5 (amended): the record {k, absent, present} is returned when k's block
\* is mapped in the newer file only, and when it is mapped in both provided
\* k's i_ctime or i_ctime_nsec differs between the files; with both blocks
\* mapped and the time stamps of k equal nothing is returned.
C5_CreationReportedIfCtimeDiffers ==
    \A k \in Inos :
        (Clean /\ c_max >= 1 /\ c_start <= k)
            => /\ CreatedWithBlock(k) => OneCreation(k)
               /\ (CreatedInPlace(k)
                   /\ InodeChanged(EntryOf(1, k), EntryOf(2, k)))
                      => OneCreation(k)
               /\ (CreatedInPlace(k)
                   /\ ~InodeChanged(EntryOf(1, k), EntryOf(2, k)))
                      => (c_ret = 0 /\ changes = <<>>)

\* A creation in a block mapped in both files, reported.
C5_Witness ==
    \E k \in Inos :
        /\ Clean /\ c_max >= 1 /\ c_start <= k
        /\ CreatedInPlace(k)
        /\ InodeChanged(EntryOf(1, k), EntryOf(2, k))
        /\ OneCreation(k)

\* ---- C6 -----------------------------------------------------------------
\* What compare returns on the same files and start when the capacity is
\* larger than the number of entries.
Unbounded ==
    nilfs_ifile_compare(1, 2, ifiles[1], ifiles[2], c_start, NumEntries + 1,
                        ZeroRefs, NoFault)

\* C6 (as claimed): with a capacity below the number of differing entries
\* >= start, compare returns exactly maxchanges records, ascending, the
\* first maxchanges records of the unbounded result.
C6_CapacityPrefix ==
    (Clean /\ c_max < Len(Unbounded.recs))
        => /\ c_ret = c_max
           /\ Len(changes) = c_max
           /\ Ascending(changes)
           /\ changes = SubSeq(Unbounded.recs, 1, c_max)

\* ---- C10 ----------------------------------------------------------------
\* C10: the entry numbers of the records of one compare call are strictly
\* ascending and all >= start.
C10_AscendingFromStart ==
    Returned => /\ Ascending(changes)
                /\ \A i \in 1 .. Len(changes) : changes[i].ino >= c_start

\* The last entry of a block deleted and the first entry of the next entry
\* block created, the metadata block between them rewritten: the two records
\* come from two batches of the differ.
C10_Witness ==
    \E k \in Inos :
        /\ Clean
        /\ k + 1 \in Inos /\ BlockOf(k + 1) = BlockOf(k) + GroupBlocks
        /\ Len(bmapcalls) = 2
        /\ changes = << Change(k, <<1, BlockOf(k)>>, NULL),
                        Change(k + 1, NULL, <<2, BlockOf(k + 1)>>) >>

\* ---- C11 ----------------------------------------------------------------
\* C11: compare of an inode file with itself returns 0, writes no record
\* and fetches no entry block, whatever start and maxchanges.
C11_SelfCompareEmpty ==
    (phase = "self" /\ fault = NoFault)
        => (c_ret = 0 /\ changes = <<>> /\ fetches = <<>>)

\* A file that holds live inodes was compared with itself, from an entry
\* of its second group, with room for records.
C11_Witness ==
    /\ phase = "self" /\ fault = NoFault
    /\ c_max >= 1 /\ c_start >= EntriesPerBlock
    /\ bmapcalls = <<nilfs_palloc_entry_blkoff(c_start)>>
    /\ \A f \in Files : \E k \in Inos :
           Mapped(f, BlockOf(k)) /\ EntryOf(f, k).i_links_count # 0
    /\ c_ret = 0

\* =================================================== entry life cycle ====
\* The handlers work on w = [file, pa, rc, dirty, mdt_dirty]: the inode file,
\* its allocator state, the reference counts, the dirty buffer heads and the
\* dirty flag of the file.  Their result holds the return value, the output
\* parameters, the new w, the calls made and the injected failure met.

\* nilfs_ifile_create_inode that does not abort the request when the block
\* fetch fails.
nilfs_ifile_create_inode_NoAbort(f, w, flt) ==
    LET p == nilfs_palloc_prepare_alloc_entry(w.pa, flt)
        g == nilfs_palloc_get_entry_block(f, w.file, p.nr, 1, flt)
    IN  IF p.ret # 0
        THEN [ret |-> p.ret, out_ino |-> 0, out_bh |-> NULL,
              w |-> [w EXCEPT !.pa = p.pa],
              calls |-> <<"prepare_alloc", "brelse">>,
              fault |-> IF flt.kind = "prepare" THEN flt ELSE NoFault]
        ELSE IF g.ret < 0
        THEN [ret |-> g.ret, out_ino |-> 0, out_bh |-> NULL,
              w |-> [w EXCEPT !.pa = p.pa, !.file = g.file],
              calls |-> <<"prepare_alloc", "get_entry_block", "brelse">>,
              fault |-> IF flt.kind = "fetch" THEN flt ELSE NoFault]
        ELSE [ret |-> 0, out_ino |-> p.nr, out_bh |-> g.bh,
              w |-> [file |-> g.file,
                     pa |-> nilfs_palloc_commit_alloc_entry(p.pa, p.nr),
                     rc |-> get_bh(w.rc, g.bh),
                     dirty |-> w.dirty \cup {g.bh},
                     mdt_dirty |-> TRUE],
              calls |-> <<"prepare_alloc", "get_entry_block", "commit_alloc",
                          "mark_buffer_dirty", "nilfs_mdt_mark_dirty">>,
              fault |-> NoFault]

\* nilfs_ifile_create_inode(ifile, out_ino, out_bh) on file f.
nilfs_ifile_create_inode(f, w, flt) ==
    LET p == nilfs_palloc_prepare_alloc_entry(w.pa, flt)
        g == nilfs_palloc_get_entry_block(f, w.file, p.nr, 1, flt)
    IN  IF p.ret # 0
        THEN [ret |-> p.ret, out_ino |-> 0, out_bh |-> NULL,
              w |-> [w EXCEPT !.pa = p.pa, !.rc = brelse(w.rc, NULL)],
              calls |-> <<"prepare_alloc", "brelse">>,
              fault |-> IF flt.kind = "prepare" THEN flt ELSE NoFault]
        ELSE IF g.ret < 0
        THEN [ret |-> g.ret, out_ino |-> 0, out_bh |-> NULL,
              w |-> [w EXCEPT
                       !.pa = nilfs_palloc_abort_alloc_entry(p.pa, p.nr),
                       !.file = g.file,
                       !.rc = brelse(w.rc, g.bh)],
              calls |-> <<"prepare_alloc", "get_entry_block", "abort_alloc",
                          "brelse">>,
              fault |-> IF flt.kind = "fetch" THEN flt ELSE NoFault]
        ELSE [ret |-> 0, out_ino |-> p.nr, out_bh |-> g.bh,
              w |-> [file |-> g.file,
                     pa |-> nilfs_palloc_commit_alloc_entry(p.pa, p.nr),
                     rc |-> get_bh(w.rc, g.bh),
                     dirty |-> w.dirty \cup {g.bh},
                     mdt_dirty |-> TRUE],
              calls |-> <<"prepare_alloc", "get_entry_block", "commit_alloc",
                          "mark_buffer_dirty", "nilfs_mdt_mark_dirty">>,
              fault |-> NoFault]

\* nilfs_ifile_delete_inode that commits the release where it has to abort it.
nilfs_ifile_delete_inode_CommitOnError(f, w, ino, flt) ==
    LET p == nilfs_palloc_prepare_free_entry(w.pa, ino, flt)
        g == nilfs_palloc_get_entry_block(f, w.file, ino, 0, flt)
    IN  IF p.ret # 0
        THEN [ret |-> p.ret, out_ino |-> 0, out_bh |-> NULL,
              w |-> [w EXCEPT !.pa = p.pa],
              calls |-> <<"prepare_free", "brelse">>,
              fault |-> IF flt.kind = "prepare" THEN flt ELSE NoFault]
        ELSE IF g.ret < 0
        THEN [ret |-> g.ret, out_ino |-> 0, out_bh |-> NULL,
              w |-> [w EXCEPT
                       !.pa = nilfs_palloc_commit_free_entry(p.pa, ino)],
              calls |-> <<"prepare_free", "get_entry_block", "commit_free",
                          "brelse">>,
              fault |-> IF flt.kind = "fetch" THEN flt ELSE NoFault]
        ELSE [ret |-> 0, out_ino |-> 0, out_bh |-> NULL,
              w |-> [file |-> [g.file EXCEPT
                                 !.blk[g.bh[2]][ino % EntriesPerBlock].i_flags
                                     = 0],
                     pa |-> nilfs_palloc_commit_free_entry(p.pa, ino),
                     rc |-> w.rc,
                     dirty |-> w.dirty \cup {g.bh},
                     mdt_dirty |-> w.mdt_dirty],
              calls |-> <<"prepare_free", "get_entry_block", "write_i_flags",
                          "mark_buffer_dirty", "brelse", "commit_free">>,
              fault |-> NoFault]

\* nilfs_ifile_delete_inode that does not look at the result of prepare.
nilfs_ifile_delete_inode_IgnorePrepare(f, w, ino, flt) ==
    LET p == nilfs_palloc_prepare_free_entry(w.pa, ino, flt)
        g == nilfs_palloc_get_entry_block(f, w.file, ino, 0, flt)
    IN  IF g.ret < 0
        THEN [ret |-> g.ret, out_ino |-> 0, out_bh |-> NULL,
              w |-> [w EXCEPT
                       !.pa = nilfs_palloc_abort_free_entry(p.pa, ino)],
              calls |-> <<"prepare_free", "get_entry_block", "abort_free",
                          "brelse">>,
              fault |-> IF flt.kind = "fetch" THEN flt ELSE NoFault]
        ELSE [ret |-> 0, out_ino |-> 0, out_bh |-> NULL,
              w |-> [file |-> [g.file EXCEPT
                                 !.blk[g.bh[2]][ino % EntriesPerBlock].i_flags
                                     = 0],
                     pa |-> nilfs_palloc_commit_free_entry(p.pa, ino),
                     rc |-> w.rc,
                     dirty |-> w.dirty \cup {g.bh},
                     mdt_dirty |-> w.mdt_dirty],
              calls |-> <<"prepare_free", "get_entry_block", "write_i_flags",
                          "mark_buffer_dirty", "brelse", "commit_free">>,
              fault |-> NoFault]

\* nilfs_ifile_delete_inode(ifile, ino) on file f.
nilfs_ifile_delete_inode(f, w, ino, flt) ==
    LET p == nilfs_palloc_prepare_free_entry(w.pa, ino, flt)
        g == nilfs_palloc_get_entry_block(f, w.file, ino, 0, flt)
    IN  IF p.ret # 0
        THEN [ret |-> p.ret, out_ino |-> 0, out_bh |-> NULL,
              w |-> [w EXCEPT !.pa = p.pa, !.rc = brelse(w.rc, NULL)],
              calls |-> <<"prepare_free", "brelse">>,
              fault |-> IF flt.kind = "prepare" THEN flt ELSE NoFault]
        ELSE IF g.ret < 0
        THEN [ret |-> g.ret, out_ino |-> 0, out_bh |-> NULL,
              w |-> [w EXCEPT
                       !.pa = nilfs_palloc_abort_free_entry(p.pa, ino),
                       !.rc = brelse(w.rc, g.bh)],
              calls |-> <<"prepare_free", "get_entry_block", "abort_free",
                          "brelse">>,
              fault |-> IF flt.kind = "fetch" THEN flt ELSE NoFault]
        ELSE [ret |-> 0, out_ino |-> 0, out_bh |-> NULL,
              w |-> [file |-> [g.file EXCEPT
                                 !.blk[g.bh[2]][ino % EntriesPerBlock].i_flags
                                     = 0],
                     pa |-> nilfs_palloc_commit_free_entry(p.pa, ino),
                     rc |-> brelse(get_bh(w.rc, g.bh), g.bh),
                     dirty |-> w.dirty \cup {g.bh},
                     mdt_dirty |-> w.mdt_dirty],
              calls |-> <<"prepare_free", "get_entry_block", "write_i_flags",
                          "mark_buffer_dirty", "brelse", "commit_free">>,
              fault |-> NoFault]

\* nilfs_ifile_get_inode_block whose range check is off by one.
nilfs_ifile_get_inode_block_OffByOne(f, w, ino, flt) ==
    IF ~NILFS_VALID_INODE(ino + 1)
    THEN [ret |-> -EINVAL, out_ino |-> 0, out_bh |-> NULL, w |-> w,
          calls |-> <<"nilfs_error">>, fault |-> NoFault]
    ELSE LET g == nilfs_palloc_get_entry_block(f, w.file, ino, 0, flt)
         IN  IF g.ret # 0
             THEN [ret |-> g.ret, out_ino |-> 0, out_bh |-> NULL, w |-> w,
                   calls |-> <<"get_entry_block", "nilfs_warning">>,
                   fault |-> IF flt.kind = "fetch" THEN flt ELSE NoFault]
             ELSE [ret |-> 0, out_ino |-> 0, out_bh |-> g.bh,
                   w |-> [w EXCEPT !.rc = get_bh(w.rc, g.bh)],
                   calls |-> <<"get_entry_block">>, fault |-> NoFault]

\* nilfs_ifile_get_inode_block that asks for the block to be created.
nilfs_ifile_get_inode_block_Create(f, w, ino, flt) ==
    IF ~NILFS_VALID_INODE(ino)
    THEN [ret |-> -EINVAL, out_ino |-> 0, out_bh |-> NULL, w |-> w,
          calls |-> <<"nilfs_error">>, fault |-> NoFault]
    ELSE LET g == nilfs_palloc_get_entry_block(f, w.file, ino, 1, flt)
         IN  IF g.ret # 0
             THEN [ret |-> g.ret, out_ino |-> 0, out_bh |-> NULL, w |-> w,
                   calls |-> <<"get_entry_block", "nilfs_warning">>,
                   fault |-> IF flt.kind = "fetch" THEN flt ELSE NoFault]
             ELSE [ret |-> 0, out_ino |-> 0, out_bh |-> g.bh,
                   w |-> [w EXCEPT !.file = g.file,
                                   !.rc = get_bh(w.rc, g.bh)],
                   calls |-> <<"get_entry_block">>, fault |-> NoFault]

\* nilfs_ifile_get_inode_block(ifile, ino, out_bh) on file f.
nilfs_ifile_get_inode_block(f, w, ino, flt) ==
    IF ~NILFS_VALID_INODE(ino)
    THEN [ret |-> -EINVAL, out_ino |-> 0, out_bh |-> NULL, w |-> w,
          calls |-> <<"nilfs_error">>, fault |-> NoFault]
    ELSE LET g == nilfs_palloc_get_entry_block(f, w.file, ino, 0, flt)
         IN  IF g.ret # 0
             THEN [ret |-> g.ret, out_ino |-> 0, out_bh |-> NULL, w |-> w,
                   calls |-> <<"get_entry_block", "nilfs_warning">>,
                   fault |-> IF flt.kind = "fetch" /\ g.ret = -flt.err
                                                   /\ flt.bh[2] =
                                                      nilfs_palloc_entry_blkoff(ino)
                             THEN flt ELSE NoFault]
             ELSE [ret |-> 0, out_ino |-> 0, out_bh |-> g.bh,
                   w |-> [w EXCEPT !.rc = get_bh(w.rc, g.bh)],
                   calls |-> <<"get_entry_block">>, fault |-> NoFault]

\* ------------------------------------------------------------ actions ----
\* A new inode file: the metadata blocks are mapped, no entry block is.
EmptyFile ==
    [bmap |-> [o \in Offsets |-> IF o \in MetaOffsets
                                 THEN 1 ELSE NILFS_BMAP_INVALID_PTR],
     blk  |-> [o \in Offsets |-> ZeroBlock]]

InitLife ==
    /\ ifiles = [f \in Files |-> EmptyFile]
    /\ phase = "idle"
    /\ c_start = 0
    /\ c_max = 0
    /\ c_ret = 0
    /\ changes = <<>>
    /\ refcnt = ZeroRefs
    /\ fetches = <<>>
    /\ bmapcalls = <<>>
    /\ fault = NoFault
    /\ pagefree = TRUE
    /\ LifeInit

LifeFaults ==
    {NoFault, PrepFault(EIO)}
    \cup {FetchFault(<<1, off>>, EIO) : off \in EntryOffsets}

World ==
    [file |-> ifiles[1], pa |-> palloc, rc |-> refcnt, dirty |-> dirty,
     mdt_dirty |-> mdt_dirty]

\* The handler has returned r for the call op(ino).
Returns(op, ino, r) ==
    /\ ifiles' = [ifiles EXCEPT ![1] = r.w.file]
    /\ palloc' = r.w.pa
    /\ refcnt' = r.w.rc
    /\ dirty' = r.w.dirty
    /\ mdt_dirty' = r.w.mdt_dirty
    /\ lres' = [op |-> op, ino |-> ino, ret |-> r.ret, out_ino |-> r.out_ino,
                out_bh |-> r.out_bh, calls |-> r.calls, fault |-> r.fault]
    /\ phase' = "returned"
    /\ UNCHANGED <<c_start, c_max, c_ret, changes, fetches, bmapcalls, fault,
                   pagefree, ReadVars>>

CreateInode(flt) ==
    /\ phase = "idle"
    /\ LET r == nilfs_ifile_create_inode(1, World, flt)
       IN  /\ Returns("create", 0, r)
           /\ owned' = IF r.ret = 0
                       THEN [owned EXCEPT ![r.out_ino] = r.out_bh]
                       ELSE owned

DeleteInode(ino, flt) ==
    /\ phase = "idle"
    /\ LET r == nilfs_ifile_delete_inode(1, World, ino, flt)
       IN  /\ Returns("delete", ino, r)
           /\ owned' = IF r.ret = 0 THEN [owned EXCEPT ![ino] = NULL]
                                    ELSE owned

GetInodeBlock(ino, flt) ==
    /\ phase = "idle"
    /\ LET r == nilfs_ifile_get_inode_block(1, World, ino, flt)
       IN  Returns("get", ino, r)
    /\ UNCHANGED owned

\* What the caller of create writes into the new disk inode.
NewInode == RawInode(1, 1, 0, 1)

\* The caller is done with the result: it fills the disk inode it has
\* created (or leaves that for later) and releases the buffer head it got.
CallerDone(fill) ==
    /\ phase = "returned"
    /\ ifiles' = IF fill /\ lres.op = "create" /\ lres.ret = 0
                 THEN [ifiles EXCEPT
                         ![1].blk[lres.out_bh[2]]
                             [lres.out_ino % EntriesPerBlock] = NewInode]
                 ELSE ifiles
    /\ refcnt' = brelse(refcnt, lres.out_bh)
    /\ lres' = NoCall
    /\ phase' = "idle"
    /\ UNCHANGED <<c_start, c_max, c_ret, changes, fetches, bmapcalls, fault,
                   pagefree, palloc, dirty, mdt_dirty, owned, ReadVars>>

NextLife ==
    \/ \E flt \in LifeFaults : CreateInode(flt)
    \/ \E ino \in Inos, flt \in LifeFaults : DeleteInode(ino, flt)
    \/ \E ino \in 0 .. NumEntries, flt \in LifeFaults : GetInodeBlock(ino, flt)
    \/ \E fill \in BOOLEAN : CallerDone(fill)

SpecLife == InitLife /\ [][NextLife]_vars

\* ============================================ claims on the life cycle ====
Called(op) == phase = "returned" /\ lres.op = op

HasCall(r, name) == \E j \in 1 .. Len(r.calls) : r.calls[j] = name

\* ---- C7 -----------------------------------------------------------------
\* C7: an entry number a successful create returns is not one an earlier
\* create returned, unless a delete of that number has succeeded since.
C7_NoDoubleAllocation ==
    [][ (phase = "idle" /\ lres'.op = "create" /\ lres'.ret = 0)
            => owned[lres'.out_ino] = NULL ]_vars

\* create returns, for the second time, the number of an entry that was
\* filled and deleted, while another entry is still owned.
C7_Witness ==
    /\ Called("create") /\ lres.ret = 0
    /\ EntryOf(1, lres.out_ino) = [NewInode EXCEPT !.i_flags = 0]
    /\ \E m \in Inos \ {lres.out_ino} : owned[m] # NULL

\* ---- C8 -----------------------------------------------------------------
\* C8: delete of an entry that is not allocated returns -ENOENT and changes
\* nothing: no entry, no dirty mark, no reference count, not the allocator
\* state, and it commits no release.
C8_DeleteNotAllocated ==
    [][ (phase = "idle" /\ lres'.op = "delete" /\ lres'.fault = NoFault
         /\ lres'.ino \notin palloc.used)
            => /\ lres'.ret = -ENOENT
               /\ ifiles' = ifiles
               /\ palloc' = palloc
               /\ dirty' = dirty
               /\ mdt_dirty' = mdt_dirty
               /\ refcnt' = refcnt
               /\ ~HasCall(lres', "commit_free")
               /\ ~HasCall(lres', "write_i_flags")
               /\ ~HasCall(lres', "mark_buffer_dirty") ]_vars

\* delete of an entry that was deleted before, in a block that holds an
\* allocated entry, has returned -ENOENT.
C8_Witness ==
    /\ Called("delete") /\ lres.ret = -ENOENT
    /\ lres.ino \notin palloc.used
    /\ EntryOf(1, lres.ino) = [NewInode EXCEPT !.i_flags = 0]
    /\ \E m \in InosOf(BlockOf(lres.ino)) : m \in palloc.used

\* ---- C9 -----------------------------------------------------------------
\* C9: get_inode_block of an entry number that create has returned (with
\* buffer head h) is never rejected with -EINVAL and, unless the block fetch
\* fails with an I/O error, returns 0 and the buffer head h of the block that
\* holds the entry.
C9_RoundTrip ==
    (Called("get") /\ lres.ino \in Inos /\ owned[lres.ino] # NULL)
        => /\ lres.ret # -EINVAL
           /\ lres.fault = NoFault
                  => /\ lres.ret = 0
                     /\ lres.out_bh = owned[lres.ino]
                     /\ lres.out_bh[2] = nilfs_palloc_entry_blkoff(lres.ino)

\* get_inode_block has returned the block of the last entry of the table,
\* which create had returned.
C9_Witness ==
    /\ Called("get") /\ lres.ino = NumEntries - 1
    /\ owned[lres.ino] # NULL
    /\ lres.ret = 0
    /\ lres.out_bh = owned[lres.ino]

\* ---- C12 ----------------------------------------------------------------
\* C12: get_inode_block of a number outside the table returns -EINVAL
\* without a block fetch and without a buffer head in *out_bh; of a number
\* inside it fetches the block without create: a lookup never changes the
\* inode file, and of a block that is not mapped it returns -ENOENT.
C12_LookupValidates ==
    [][ (phase = "idle" /\ lres'.op = "get")
            => /\ lres'.ino \notin Inos
                   => /\ lres'.ret = -EINVAL
                      /\ ~HasCall(lres', "get_entry_block")
                      /\ lres'.out_bh = NULL
                      /\ refcnt' = refcnt
               /\ lres'.ino \in Inos
                   => /\ lres'.ret # -EINVAL
                      /\ HasCall(lres', "get_entry_block")
                      /\ (~Mapped(1, BlockOf(lres'.ino))
                          /\ lres'.fault = NoFault)
                             => (lres'.ret = -ENOENT /\ lres'.out_bh = NULL)
               /\ ifiles' = ifiles
               /\ palloc' = palloc
               /\ dirty' = dirty
               /\ mdt_dirty' = mdt_dirty ]_vars

\* get_inode_block of the first number past the table has returned -EINVAL,
\* while entries are allocated and an entry block is still not mapped.
C12_Witness ==
    /\ Called("get") /\ lres.ino = NumEntries
    /\ lres.ret = -EINVAL /\ lres.out_bh = NULL
    /\ palloc.used # {}
    /\ \E off \in EntryOffsets : ~Mapped(1, off)

\* ---- C13 ----------------------------------------------------------------
\* C13 (as claimed): delete zeroes the field compare tests for liveness
\* (i_links_count) before it commits the release, so the link count of every
\* entry that is free for reuse reads zero.
C13_FreeSlotReadsDead ==
    \A n \in Inos :
        (n \notin palloc.used /\ Mapped(1, BlockOf(n)))
            => EntryOf(1, n).i_links_count = 0

\* ---- C14 ----------------------------------------------------------------
CountCalls(r, names) ==
    Cardinality({j \in 1 .. Len(r.calls) : r.calls[j] \in names})

Commits == {"commit_alloc", "commit_free"}
Aborts == {"abort_alloc", "abort_free"}

\* C14: in create and in delete, a request whose prepare succeeded (the
\* block fetch was reached) is committed or aborted, exactly once and never
\* both: aborted iff the fetch failed, and then the error is returned,
\* nothing is marked dirty and the allocator state is what it was before the
\* call; committed iff the fetch succeeded.  When prepare fails neither a
\* commit nor an abort is issued.
C14_CommitXorAbort ==
    [][ (phase = "idle" /\ lres'.op \in {"create", "delete"})
            => IF HasCall(lres', "get_entry_block")
               THEN /\ CountCalls(lres', Commits \cup Aborts) = 1
                    /\ CountCalls(lres', Aborts) = 1 <=> lres'.ret < 0
                    /\ CountCalls(lres', Commits) = 1 <=> lres'.ret = 0
                    /\ lres'.ret < 0
                          => /\ dirty' = dirty
                             /\ mdt_dirty' = mdt_dirty
                             /\ palloc' = palloc
                             /\ ifiles' = ifiles
                    /\ palloc'.prep = {}
               ELSE /\ lres'.ret < 0
                    /\ CountCalls(lres', Commits \cup Aborts) = 0
                    /\ palloc' = palloc ]_vars

\* create has failed on the fetch of the block of the entry it had reserved
\* and has aborted the request, while other entries are allocated.
C14_Witness ==
    /\ Called("create") /\ lres.ret = -EIO
    /\ lres.fault.kind = "fetch"
    /\ HasCall(lres, "abort_alloc")
    /\ palloc.used # {} /\ palloc.prep = {}

\* ======================================== compare and life cycle together ==
\* The behaviours of Spec and of SpecLife in one specification.
InitBoth == Init \/ InitLife

\* CallerDone after a create, delete or lookup call.
CallerDoneLife(fill) == lres.op # "none" /\ CallerDone(fill)

NextBoth ==
    \/ Next
    \/ \E flt \in LifeFaults : CreateInode(flt)
    \/ \E ino \in Inos, flt \in LifeFaults : DeleteInode(ino, flt)
    \/ \E ino \in 0 .. NumEntries, flt \in LifeFaults : GetInodeBlock(ino, flt)
    \/ \E fill \in BOOLEAN : CallerDoneLife(fill)

SpecBoth == InitBoth /\ [][NextBoth]_vars

\* ---- C15 ----------------------------------------------------------------
CompareReturned == phase \in {"returned", "self"} /\ lres.op = "none"

\* The fields bh1 / bh2 of the records written that point to h.
RefsHeld(h) ==
    Cardinality({x \in (1 .. Len(changes)) \X {1, 2} :
                    (IF x[2] = 1 THEN changes[x[1]].bh1
                                 ELSE changes[x[1]].bh2) = h})

\* C15: after a compare that returns nc >= 0 there are nc records and the
\* reference count of every buffer head has grown by the number of record
\* fields that point to it; after create it has grown by one for the buffer
\* head returned on success and by nothing on failure; after delete by
\* nothing.  (Every count is zero before the call.)
C15_ReferencesBalanced ==
    /\ (CompareReturned /\ c_ret >= 0)
           => /\ c_ret = Len(changes)
              /\ \A h \in Handles : refcnt[h] = RefsHeld(h)
    /\ Called("create")
           => refcnt = IF lres.ret = 0
                       THEN [ZeroRefs EXCEPT ![lres.out_bh] = 1]
                       ELSE ZeroRefs
    /\ Called("delete") => refcnt = ZeroRefs

\* compare has stopped at capacity 2 with a record that holds both buffer
\* heads of a block, and more entries differ than it has reported.
C15_Witness ==
    /\ CompareReturned /\ phase = "returned" /\ fault = NoFault
    /\ c_max = 2 /\ c_ret = 2
    /\ \E i \in 1 .. Len(changes) :
           changes[i].bh1 # NULL /\ changes[i].bh2 # NULL
    /\ \E h \in Handles : refcnt[h] = 2
    /\ Len(Unbounded.recs) > 2

\* ---- C16 ----------------------------------------------------------------
\* The record to expect for entry e, as a set of at most one record.
ExpectedRecord(e) ==
    LET off == BlockOf(e)
        i1  == EntryOf(1, e)
        i2  == EntryOf(2, e)
        h1  == <<1, off>>
        h2  == <<2, off>>
    IN  IF ifiles[1].bmap[off] = ifiles[2].bmap[off]
        THEN {}
        ELSE IF Mapped(1, off) /\ Mapped(2, off)
        THEN IF i1.i_ctime = i2.i_ctime /\ i1.i_ctime_nsec = i2.i_ctime_nsec
             THEN {}
             ELSE {[ino |-> e,
                    bh1 |-> IF i1.i_links_count # 0 THEN h1 ELSE NULL,
                    bh2 |-> IF i2.i_links_count # 0 THEN h2 ELSE NULL]}
        ELSE IF Mapped(1, off)
        THEN IF i1.i_links_count # 0
             THEN {[ino |-> e, bh1 |-> h1, bh2 |-> NULL]} ELSE {}
        ELSE IF i2.i_links_count # 0
             THEN {[ino |-> e, bh1 |-> NULL, bh2 |-> h2]} ELSE {}

ExpectedRecords ==
    UNION {ExpectedRecord(e) : e \in {x \in Inos : x >= c_start}}

C17_FetchFailureAborts ==
    (Returned /\ fault.kind = "fetch")
        => /\ c_ret = -fault.err
           /\ Len(fetches) >= 1
           /\ fetches[Len(fetches)] = fault.bh
           /\ \A j \in 1 .. (Len(fetches) - 1) :
                 fetches[j] # fault.bh /\ fetches[j][2] <= fault.bh[2]
           /\ \A i \in 1 .. Len(bmapcalls) : bmapcalls[i] <= fault.bh[2]
           /\ \A f \in Files : refcnt[<<f, fault.bh[2]>>] = 0

\* The fetch of the target's copy of a block has failed after the source's
\* copy had been fetched, while a later block differs as well.
C17_Witness ==
    /\ Returned /\ fault.kind = "fetch" /\ fault.bh[1] = 2
    /\ c_ret = -fault.err
    /\ Len(fetches) = 2 /\ fetches[1] = <<1, fault.bh[2]>>
    /\ \E off \in EntryOffsets :
          /\ off > fault.bh[2]
          /\ ifiles[1].bmap[off] # ifiles[2].bmap[off]

\* ---- C19 ----------------------------------------------------------------
\* C19: with maxchanges >= 1 compare writes at most maxchanges records and
\* returns at most maxchanges; once it has written maxchanges records it
\* stops: the block of the last record is the last block fetched and the
\* differ is not called for an offset past it.
C19_WithinCapacity ==
    (Returned /\ c_max >= 1)
        => /\ Len(changes) <= c_max
           /\ c_ret <= c_max
           /\ c_ret = c_max
                 => /\ fetches[Len(fetches)][2] = BlockOf(changes[c_max].ino)
                    /\ \A i \in 1 .. Len(bmapcalls) :
                          bmapcalls[i] <= BlockOf(changes[c_max].ino)

\* compare has stopped with its one-record buffer full while three entries
\* or more differ, one of them in a later block.
C19_Witness ==
    /\ Clean /\ c_max = 1 /\ c_ret = 1
    /\ Cardinality(ExpectedRecords) >= 3
    /\ \E r \in ExpectedRecords : BlockOf(r.ino) > BlockOf(changes[1].ino)

\* ---- C20 ----------------------------------------------------------------
\* The diffs the differ returns to its i-th call.
Batch(i) ==
    nilfs_bmap_compare(ifiles[1].bmap, ifiles[2].bmap, bmapcalls[i], MaxDiffs)

\* C20: compare returns, with the scratch page freed (or never allocated).
\* The first differ call is for the block of start; a further call is made
\* only after a full batch, for the offset after the last one reported, so
\* the offsets of the calls strictly increase; a scan that meets no failure
\* and does not stop at capacity ends with a batch that is not full.
C20_ScanProgress ==
    Returned
        => /\ pagefree
           /\ fault.kind = "page" => (bmapcalls = <<>> /\ c_ret = -ENOMEM)
           /\ fault.kind # "page"
                 => /\ Len(bmapcalls) >= 1
                    /\ bmapcalls[1] = nilfs_palloc_entry_blkoff(c_start)
           /\ \A i \in 1 .. (Len(bmapcalls) - 1) :
                 /\ bmapcalls[i + 1] > bmapcalls[i]
                 /\ Len(Batch(i)) = MaxDiffs
                 /\ bmapcalls[i + 1] = Batch(i)[MaxDiffs].key + 1
           /\ (fault = NoFault /\ c_ret # c_max)
                 => Len(Batch(Len(bmapcalls))) < MaxDiffs

\* compare has gone through a full batch and a short one that is not
\* empty, has reported an entry and has room left.
C20_Witness ==
    /\ Clean /\ Len(bmapcalls) = 2
    /\ Len(Batch(2)) = 1
    /\ c_ret >= 1 /\ c_ret < c_max

\* ================================================ table initialization ====
\* A caller asks for the inode file of a root.
IfileRead(root, flt) ==
    /\ icache.res[root] # NoInode \/ flt.step = "iget"
          \/ icache.next <= MaxInodes
    /\ LET r == nilfs_ifile_read(icache, root, flt)
       IN  /\ icache' = r.ic
           /\ rres' = [op |-> "read", root |-> root, ret |-> r.ret,
                       inodep |-> r.inodep, calls |-> r.calls,
                       flt |-> IF "nilfs_mdt_init" \in
                                     {r.calls[j] : j \in 1 .. Len(r.calls)}
                                  \/ r.ret = -ENOMEM
                               THEN flt ELSE NoReadFault,
                       before |-> icache]
    /\ UNCHANGED <<ifiles, phase, CompareVars, palloc, dirty, mdt_dirty, lres,
                   owned>>

\* The resident inode of a root is evicted from memory.
Evict(root) ==
    /\ icache.res[root] # NoInode
    /\ icache' = [icache EXCEPT !.res[root] = NoInode]
    /\ rres' = NoRead
    /\ UNCHANGED <<ifiles, phase, CompareVars, palloc, dirty, mdt_dirty, lres,
                   owned>>

NextRead ==
    \/ \E root \in Roots, flt \in ReadFaults : IfileRead(root, flt)
    \/ \E root \in Roots : Evict(root)

SpecRead == InitLife /\ [][NextRead]_vars

\* ---- C18 ----------------------------------------------------------------
ReadCalled(name) == \E j \in 1 .. Len(rres.calls) : rres.calls[j] = name

\* C18: nilfs_ifile_read of a root whose inode is resident returns that
\* inode and runs nothing but the lookup, leaving the cache as it was.  On a
\* new inode, a failure of one of the binding steps ends with iget_failed:
\* the error is returned, unlock_new_inode is not called, nothing is stored
\* in *inodep, the inode is marked bad and is not resident.  No inode that
\* is resident or handed out is unbound, locked or bad.
C18_ReadAllOrNothing ==
    /\ (rres.op = "read" /\ rres.before.res[rres.root] # NoInode
        /\ rres.flt.step # "iget")
           => /\ rres.ret = 0
              /\ rres.inodep = rres.before.res[rres.root]
              /\ rres.calls = <<"nilfs_iget_locked">>
              /\ icache = rres.before
    /\ (rres.op = "read" /\ rres.before.res[rres.root] = NoInode
        /\ rres.flt.step \notin {"none", "iget"})
           => /\ rres.ret = -rres.flt.err
              /\ rres.calls[Len(rres.calls)] = "iget_failed"
              /\ rres.calls[Len(rres.calls) - 1] = rres.flt.step
              /\ ~ReadCalled("unlock_new_inode")
              /\ rres.inodep = NoInode
              /\ rres.before.next \in icache.bad
              /\ icache.res = rres.before.res
    /\ \A r \in Roots :
           icache.res[r] # NoInode
               => /\ icache.res[r] \in icache.bound
                  /\ icache.res[r] \notin icache.bad \cup icache.locked
    /\ (rres.op = "read" /\ rres.inodep # NoInode)
           => /\ rres.ret = 0
              /\ rres.inodep \in icache.bound
              /\ rres.inodep \notin icache.bad \cup icache.locked

\* A read of a root has failed in the last binding step, after an earlier
\* inode had failed too, while the inode file of another root is resident.
C18_Witness ==
    /\ rres.op = "read" /\ rres.ret = -EIO
    /\ rres.flt.step = "nilfs_read_inode_common"
    /\ Cardinality(icache.bad) = 2
    /\ \E r \in Roots \ {rres.root} : icache.res[r] # NoInode

====
